---- MODULE Spec2Model ----
(***************************************************************************)
(* A model of rocket-pool/batch-query:                                     *)
(*   - BalanceBatcher.GetEthBalances (src/balance-batcher.go): an address  *)
(*     list is cut into chunks, one goroutine per chunk under an           *)
(*     errgroup.Group with a limit, each writing its part of a shared      *)
(*     result array;                                                       *)
(*   - MultiCaller.AddCall / FlexibleCall (src/unnamed/part_000, the later *)
(*     of the two versions in that file): a queue of call descriptors      *)
(*     packed into one tryAggregate call and unpacked per descriptor.      *)
(* The transport (IContractCaller.CallContract) and the ABI codec are the  *)
(* environment: their outcomes are chosen nondeterministically.            *)
(***************************************************************************)
EXTENDS Integers, Sequences, FiniteSets, TLC

\* ---------------------------------------------------------------- bounds
MaxAddresses == 3      \* longest address list handed to GetEthBalances
MaxBatchSize == 2      \* largest BalanceBatchSize
MaxThreadLimit == 2    \* largest ThreadLimit
MaxBalance == 2        \* balances the aggregator may report are 1..MaxBalance
MaxCalls == 3          \* AddCall invocations in one behaviour
MaxExecs == 2          \* FlexibleCall invocations in one behaviour
MaxData == 2           \* return data of one inner call is 0..MaxData
MaxBlock == 1          \* block numbers the caller's options may name are 1..MaxBlock
MaxCtors == 3          \* constructor calls in one behaviour

VARIABLES
    \* BalanceBatcher
    BalanceBatchSize,  \* b.BalanceBatchSize
    ThreadLimit,       \* b.ThreadLimit
    addresses,         \* the addresses argument
    balances,          \* the shared result array
    bpc,               \* where GetEthBalances is: "ready", "loop", "wait", "returned"
    i,                 \* the loop variable of GetEthBalances
    units,             \* the goroutines handed to wg.Go, in spawn order
    gerr,              \* the errgroup's first recorded error
    ret,               \* what GetEthBalances returned
    writes,            \* per index of the shared array, the goroutines that assigned it, in order
    \* MultiCaller
    calls,             \* mc.calls
    outputs,           \* the caller-owned output locations, by descriptor id
    mcpc,              \* where FlexibleCall is
    k,                 \* the loop index inside FlexibleCall
    requireSuccess,    \* the argument of the running (or last) FlexibleCall
    resp,              \* what the transport answered to the running (or last) FlexibleCall
    results,           \* the decoded aggregate response
    res,               \* the flag list being built
    mcRet,             \* what the last FlexibleCall returned
    trace,             \* the steps of the running (or last) FlexibleCall
    queued,            \* mc.calls as it was when the running (or last) FlexibleCall began
    adds,              \* AddCall invocations so far
    execs,             \* FlexibleCall invocations so far
    addsSinceCall,     \* AddCall invocations since the last FlexibleCall began
    noNewCalls,        \* the running (or last) FlexibleCall followed another with no AddCall between
    sent,              \* the context and block number of the CallContract of FlexibleCall
    \* the caller and the process
    opts,              \* the *bind.CallOpts the caller passes to GetEthBalances / FlexibleCall
    ctors,             \* the constructor calls (NewBalanceBatcher, NewMultiCaller) under way
    codec              \* the package-level ABI caches: balanceBatcherAbi, multicallAbi, mcOnce

bbVars == <<BalanceBatchSize, ThreadLimit, addresses, balances, bpc, i, units, gerr, ret,
            writes>>
mcVars == <<calls, outputs, mcpc, k, requireSuccess, resp, results, res, mcRet, trace,
            queued, adds, execs, addsSinceCall, noNewCalls, sent>>
ctorVars == <<ctors, codec>>
vars == <<bbVars, mcVars, opts, ctorVars>>

\* A nil *big.Int is <<>>, a non-nil one <<v>>.
Nil == <<>>
NoError == "nil"

Min(a, b) == IF a < b THEN a ELSE b

\* Sequences over S of a length in lens.
SeqsOf(S, lens) == UNION {[1..n -> S] : n \in lens}

\* ------------------------------------------------------------- options

\* opts *bind.CallOpts as far as the two entry points read it: nil, or a
\* struct whose Context is unset ("none") or the caller's own ("caller") and
\* whose BlockNumber is nil or a number.
NoOpts == [given |-> FALSE, Context |-> "none", BlockNumber |-> Nil]

CallOptions ==
    {NoOpts} \cup {[given |-> TRUE, Context |-> c, BlockNumber |-> b] :
                      c \in {"none", "caller"}, b \in {Nil} \cup {<<n>> : n \in 1..MaxBlock}}

\* The context handed to CallContract: context.Background(), whatever the
\* options hold.
CallContext(o) == "background"

BlockNumberLatest(o) == Nil

\* var blockNumber *big.Int; if opts != nil { blockNumber = opts.BlockNumber }
BlockNumberOf(o) == IF o.given THEN o.BlockNumber ELSE Nil

\* ------------------------------------------------------- BalanceBatcher

\* The account at position n of the argument list; GetEthBalances never looks
\* inside an address.
Address(n) == <<"addr", n>>

BalanceValues == {<<v>> : v \in 1..MaxBalance}

\* addresses[lo:hi] of Go (0-based, hi exclusive).
Slice(s, lo, hi) == [n \in 1..(hi - lo) |-> s[lo + n]]

\* What the transport may hand back for a chunk of n addresses: an error, bytes
\* the ABI cannot unpack, or a list of balances: any list of n balances, some
\* of them nil, or a list one shorter or one longer (the code compares its
\* length only, so these hold the balance 1 throughout).
Replies(n) ==
    {[kind |-> "error", list |-> <<>>], [kind |-> "garbage", list |-> <<>>]}
    \cup {[kind |-> "list", list |-> l] : l \in SeqsOf(BalanceValues \cup {Nil}, {n})}
    \cup {[kind |-> "list", list |-> l] :
            l \in SeqsOf({<<1>>}, {m \in {n - 1, n + 1} : m >= 0})}

\* Goroutines of the group that have not finished (hold a token of g.sem).
Active == {u \in 1..Len(units) : units[u].pc # "done"}

\* errgroup.Group.Go may start a goroutine: SetLimit(n) with n < 0 sets no
\* limit, otherwise at most n goroutines are active.
SlotFreeCountsFinished == IF ThreadLimit < 0 THEN TRUE ELSE Len(units) < ThreadLimit

SlotFreeOffByOne == IF ThreadLimit < 0 THEN TRUE ELSE Cardinality(Active) <= ThreadLimit

SlotFree == IF ThreadLimit < 0 THEN TRUE ELSE Cardinality(Active) < ThreadLimit

\* The goroutine's function returned err: errgroup records the first non-nil
\* error (errOnce) and releases the goroutine's slot.
RecordErrorDropped(err) == gerr

RecordErrorLast(err) == err

RecordError(err) == IF gerr = NoError THEN err ELSE gerr

\* addr is the address the error message names, if it names one.
FinishAt(u, err, addr) ==
    /\ units' = [units EXCEPT ![u].pc = "done", ![u].err = err, ![u].reply = Nil,
                              ![u].errAddress = addr]
    /\ gerr' = IF err = NoError THEN gerr ELSE RecordError(err)

Finish(u, err) == FinishAt(u, err, Nil)

\* The goroutines one GetEthBalances may start here.  A positive batch size
\* never needs more than one per address; the loop of a batch size of zero or
\* less would go on starting them.
MaxUnits == MaxAddresses + 1

\* A negative limit handed to SetLimit means no limit.
NoLimit == -1

\* GetEthBalances has not been entered.
NotEntered ==
    /\ addresses = <<>>
    /\ balances = <<>>
    /\ bpc = "ready"
    /\ i = 0
    /\ units = <<>>
    /\ gerr = NoError
    /\ ret = [done |-> FALSE, isNil |-> TRUE, balances |-> <<>>, err |-> NoError]
    /\ writes = <<>>

\* Any batch size and any thread limit: NewBalanceBatcher stores what it is
\* given.
InitAnyBalances ==
    /\ BalanceBatchSize \in (-MaxBatchSize)..MaxBatchSize
    /\ ThreadLimit \in NoLimit..MaxThreadLimit
    /\ NotEntered

InitBalances ==
    /\ BalanceBatchSize \in 1..MaxBatchSize
    /\ ThreadLimit \in 1..MaxThreadLimit
    /\ NotEntered

\* GetEthBalances is entered: count, balances := make(...), wg.SetLimit.
GetEthBalances ==
    /\ bpc = "ready"
    /\ \E n \in 0..MaxAddresses :
        /\ addresses' = [a \in 1..n |-> Address(a)]
        /\ balances' = [a \in 1..n |-> Nil]
        /\ writes' = [a \in 1..n |-> <<>>]
    /\ i' = 0
    /\ bpc' = "loop"
    /\ UNCHANGED <<BalanceBatchSize, ThreadLimit, units, gerr, ret, mcVars, opts, ctorVars>>

ChunkMaxUnclamped(lo) == lo + BalanceBatchSize

\* The upper end of the chunk that starts at offset lo.
ChunkMax(lo) == Min(lo + BalanceBatchSize, Len(addresses))

\* One turn of the for loop: wg.Go blocks until a slot is free, then starts
\* the goroutine for addresses[i:max].
Spawn ==
    /\ bpc = "loop"
    /\ i < Len(addresses)
    /\ SlotFree
    /\ Len(units) < MaxUnits
    /\ units' = Append(units, [i |-> i, max |-> ChunkMax(i), pc |-> "start",
                               invocations |-> 0, callData |-> Nil, reply |-> Nil, subBalances |-> Nil,
                               j |-> 0, err |-> NoError, errAddress |-> Nil,
                               ctx |-> "unset", blockNumber |-> Nil])
    /\ i' = i + BalanceBatchSize
    /\ UNCHANGED <<BalanceBatchSize, ThreadLimit, addresses, balances, bpc, gerr, ret, writes, mcVars, opts, ctorVars>>

\* The for loop ends.
LoopEnd ==
    /\ bpc = "loop"
    /\ ~(i < Len(addresses))
    /\ bpc' = "wait"
    /\ UNCHANGED <<BalanceBatchSize, ThreadLimit, addresses, balances, i, units, gerr, ret, writes, mcVars, opts, ctorVars>>

\* addresses[lo:hi] is a slice expression Go evaluates without a panic.
SliceInRange(lo, hi) == 0 <= lo /\ lo <= hi /\ hi <= Len(addresses)

\* Goroutine u panicked: the process is gone, and every goroutine with it.
Crashed(u) ==
    [n \in 1..Len(units) |-> [units[n] EXCEPT !.pc = IF n = u THEN "panic" ELSE "killed"]]

\* subAddresses := addresses[i:max], b.abi.Pack, and on success the
\* CallContract invocation is issued.
UnitPack(u) ==
    /\ units[u].pc = "start"
    /\ IF ~SliceInRange(units[u].i, units[u].max)
       THEN /\ units' = Crashed(u)
            /\ bpc' = "panic"
            /\ UNCHANGED gerr
       ELSE /\ \/ Finish(u, "error creating calldata")
               \/ /\ units' = [units EXCEPT ![u].pc = "call",
                                  ![u].invocations = units[u].invocations + 1,
                                  ![u].callData = Slice(addresses, units[u].i, units[u].max),
                                  ![u].ctx = CallContext(opts),
                                  ![u].blockNumber = BlockNumberOf(opts)]
                  /\ UNCHANGED gerr
            /\ UNCHANGED bpc
    /\ UNCHANGED <<BalanceBatchSize, ThreadLimit, addresses, balances, i, ret, writes, mcVars, opts, ctorVars>>

\* The transport answers the outstanding CallContract.
UnitReply(u) ==
    /\ units[u].pc = "call"
    /\ \E r \in Replies(Len(units[u].callData)) :
        units' = [units EXCEPT ![u].pc = "unpack", ![u].reply = r]
    /\ UNCHANGED <<BalanceBatchSize, ThreadLimit, addresses, balances, bpc, i, gerr, ret, writes, mcVars, opts, ctorVars>>

UnpackErrorNoLengthCheck(r, n) ==
    IF r.kind = "error" THEN "error calling balances"
    ELSE IF r.kind = "garbage" THEN "error unpacking balances response"
    ELSE NoError

\* The checks between CallContract and the write loop: the transport error,
\* UnpackIntoInterface, and the length comparison.
UnpackError(r, n) ==
    IF r.kind = "error" THEN "error calling balances"
    ELSE IF r.kind = "garbage" THEN "error unpacking balances response"
    ELSE IF Len(r.list) # n THEN "mismatches query batch size"
    ELSE NoError

UnitUnpack(u) ==
    /\ units[u].pc = "unpack"
    /\ LET e == UnpackError(units[u].reply, Len(units[u].callData)) IN
        IF e # NoError
        THEN Finish(u, e)
        ELSE /\ units' = [units EXCEPT ![u].pc = "write", ![u].j = 0,
                             ![u].subBalances = units[u].reply.list, ![u].reply = Nil]
             /\ UNCHANGED gerr
    /\ UNCHANGED <<BalanceBatchSize, ThreadLimit, addresses, balances, bpc, i, ret, writes, mcVars, opts, ctorVars>>

WriteIndexNoOffset(lo, j) == j + 1

WriteIndexOneOn(lo, j) == lo + j + 2

\* The index of the shared array that turn j of the write loop of the chunk
\* at offset lo assigns (1-based here, balances[i+j] in the code).
WriteIndex(lo, j) == lo + j + 1

\* One turn of the loop over subBalances, or its end.
UnitWrite(u) ==
    /\ units[u].pc = "write"
    /\ LET j == units[u].j
           sb == units[u].subBalances
       IN IF j >= Len(sb)
          THEN Finish(u, NoError) /\ UNCHANGED <<balances, writes>>
          ELSE IF sb[j + 1] = Nil
          THEN /\ FinishAt(u, "received nil balance", units[u].callData[j + 1])
               /\ UNCHANGED <<balances, writes>>
          ELSE /\ balances' = [balances EXCEPT ![WriteIndex(units[u].i, j)] = sb[j + 1]]
               /\ writes' = [writes EXCEPT ![WriteIndex(units[u].i, j)] = Append(@, u)]
               /\ units' = [units EXCEPT ![u].j = j + 1]
               /\ UNCHANGED gerr
    /\ UNCHANGED <<BalanceBatchSize, ThreadLimit, addresses, bpc, i, ret, mcVars, opts, ctorVars>>

WaitDoneOnFirstError == Active = {} \/ gerr # NoError

\* wg.Wait returns once every goroutine of the group has finished.
WaitDone == Active = {}

\* What GetEthBalances returns once wg.Wait has returned err.
Returned(err) ==
    IF err # NoError
    THEN [done |-> TRUE, isNil |-> TRUE, balances |-> <<>>, err |-> err]
    ELSE [done |-> TRUE, isNil |-> FALSE, balances |-> balances, err |-> NoError]

Return ==
    /\ bpc = "wait"
    /\ WaitDone
    /\ ret' = Returned(gerr)
    /\ bpc' = "returned"
    /\ UNCHANGED <<BalanceBatchSize, ThreadLimit, addresses, balances, i, units, gerr, writes,
                   mcVars, opts, ctorVars>>

NextBalances ==
    \/ GetEthBalances
    \/ Spawn
    \/ LoopEnd
    \/ \E u \in 1..Len(units) : UnitPack(u)
    \/ \E u \in 1..Len(units) : UnitReply(u)
    \/ \E u \in 1..Len(units) : UnitUnpack(u)
    \/ \E u \in 1..Len(units) : UnitWrite(u)
    \/ Return

\* ---------------------------------------------------------- MultiCaller

\* The (success, returnData) pairs a tryAggregate response may decode to.
\* Return data 0 is data the descriptor's UnpackFunc cannot decode.
CallResponses == [Status : BOOLEAN, ReturnData : 0..MaxData]

\* What the transport may hand back for an aggregate of n calls: an error,
\* bytes the ABI cannot unpack, or a list of pairs one shorter, as long as, or
\* one longer than the queue (UnpackIntoInterface replaces the slice it is
\* given by one of the decoded length).
AggregateReplies(n) ==
    {[kind |-> "error", list |-> <<>>], [kind |-> "garbage", list |-> <<>>]}
    \cup {[kind |-> "list", list |-> l] :
            l \in SeqsOf(CallResponses, {m \in (n-1)..(n+1) : m >= 0})}

NoReply == [kind |-> "none", list |-> <<>>]
NotSent == [invocations |-> 0, ctx |-> "unset", blockNumber |-> Nil]
NotReturned == [done |-> FALSE, isNil |-> TRUE, flags |-> <<>>, err |-> NoError]

\* return flags, nil
ReturnFlags(flags) == [done |-> TRUE, isNil |-> FALSE, flags |-> flags, err |-> NoError]
\* return nil, err
ReturnError(err) == [done |-> TRUE, isNil |-> TRUE, flags |-> <<>>, err |-> err]

InitMultiCaller ==
    /\ calls = <<>>
    /\ outputs = [d \in 1..MaxCalls |-> Nil]
    /\ mcpc = "idle"
    /\ k = 0
    /\ requireSuccess = FALSE
    /\ resp = NoReply
    /\ results = <<>>
    /\ res = <<>>
    /\ mcRet = NotReturned
    /\ trace = <<>>
    /\ queued = <<>>
    /\ adds = 0
    /\ execs = 0
    /\ addsSinceCall = 0
    /\ noNewCalls = FALSE
    /\ sent = NotSent

\* The descriptor AddCall builds: PackFunc and UnpackFunc are closures over
\* the arguments; packOk says whether abi.Pack accepts them.
NewCall(id, packOk) == [id |-> id, packOk |-> packOk, CallData |-> Nil]

EnqueueFront(q, call) == <<call>> \o q

\* mc.calls = append(mc.calls, call)
Enqueue(q, call) == Append(q, call)

AddCall ==
    /\ mcpc = "idle"
    /\ adds < MaxCalls
    /\ \E packOk \in BOOLEAN : calls' = Enqueue(calls, NewCall(adds + 1, packOk))
    /\ adds' = adds + 1
    /\ addsSinceCall' = addsSinceCall + 1
    /\ UNCHANGED <<outputs, mcpc, k, requireSuccess, resp, results, res, mcRet, trace,
                   queued, execs, noNewCalls, sent, bbVars, opts, ctorVars>>

QueueEmptyNever == FALSE

\* if len(mc.calls) == 0
QueueEmpty == Len(calls) = 0

\* FlexibleCall is entered: the empty-queue return, or res := make(...).
FlexibleCall ==
    /\ mcpc = "idle"
    /\ execs < MaxExecs
    /\ \E rs \in BOOLEAN : requireSuccess' = rs
    /\ execs' = execs + 1
    /\ noNewCalls' = (execs > 0 /\ addsSinceCall = 0)
    /\ addsSinceCall' = 0
    /\ queued' = calls
    /\ trace' = <<>>
    /\ resp' = NoReply
    /\ results' = <<>>
    /\ sent' = NotSent
    /\ IF QueueEmpty
       THEN /\ mcRet' = ReturnFlags(<<>>)
            /\ res' = <<>>
            /\ UNCHANGED <<mcpc, k>>
       ELSE /\ mcRet' = NotReturned
            /\ res' = [n \in 1..Len(calls) |-> FALSE]
            /\ mcpc' = "encode"
            /\ k' = 1
    /\ UNCHANGED <<calls, outputs, adds, bbVars, opts, ctorVars>>

NextTurnSkips(n) == n + 2

\* for i, call := range mc.calls: the index of the turn after turn n.
NextTurn(n) == n + 1

EncodeFailsIgnored(c) == FALSE

\* call.PackFunc() returned an error.
EncodeFails(c) == ~c.packOk

\* One turn of the loop that runs each descriptor's PackFunc.
Encode ==
    /\ mcpc = "encode"
    /\ trace' = Append(trace, <<"PackFunc", calls[k].id>>)
    /\ IF EncodeFails(calls[k])
       THEN /\ mcRet' = ReturnError("error packing data for call")
            /\ mcpc' = "idle"
            /\ UNCHANGED <<calls, k>>
       ELSE /\ calls' = [calls EXCEPT ![k].CallData = <<"callData", calls[k].id>>]
            /\ IF k < Len(calls)
               THEN k' = NextTurn(k) /\ UNCHANGED mcpc
               ELSE mcpc' = "pack" /\ UNCHANGED k
            /\ UNCHANGED mcRet
    /\ UNCHANGED <<outputs, requireSuccess, resp, results, res, queued, adds, execs,
                   addsSinceCall, noNewCalls, sent, bbVars, opts, ctorVars>>

\* multicallAbi.Pack("tryAggregate", ...), and on success the CallContract
\* invocation is issued.
Pack ==
    /\ mcpc = "pack"
    /\ \/ /\ mcRet' = ReturnError("error packing aggregated call data")
          /\ mcpc' = "idle"
          /\ UNCHANGED <<trace, sent>>
       \/ /\ trace' = Append(trace, <<"CallContract", 0>>)
          /\ sent' = [invocations |-> sent.invocations + 1, ctx |-> CallContext(opts),
                      blockNumber |-> BlockNumberOf(opts)]
          /\ mcpc' = "transport"
          /\ UNCHANGED mcRet
    /\ UNCHANGED <<calls, outputs, k, requireSuccess, resp, results, res, queued, adds,
                   execs, addsSinceCall, noNewCalls, bbVars, opts, ctorVars>>

AggregateErrorTransportIgnored(r) ==
    IF r.kind = "garbage" THEN "error unpacking aggregated response data" ELSE NoError

\* The two checks between CallContract and the decode loop: the transport
\* error and the error of UnpackIntoInterface.
AggregateError(r) ==
    IF r.kind = "error" THEN "error calling multicall contract"
    ELSE IF r.kind = "garbage" THEN "error unpacking aggregated response data"
    ELSE NoError

\* The transport answers; a transport error or an undecodable response ends
\* the call, otherwise results is the decoded list.
Reply ==
    /\ mcpc = "transport"
    /\ \E r \in AggregateReplies(Len(calls)) :
        /\ resp' = r
        /\ IF AggregateError(r) # NoError
           THEN /\ mcRet' = ReturnError(AggregateError(r))
                /\ mcpc' = "idle"
                /\ UNCHANGED <<results, k>>
           ELSE /\ results' = r.list
                /\ mcpc' = "decode"
                /\ k' = 1
                /\ UNCHANGED mcRet
    /\ UNCHANGED <<calls, outputs, requireSuccess, res, trace, queued, adds, execs,
                   addsSinceCall, noNewCalls, sent, bbVars, opts, ctorVars>>

\* c.UnpackFunc(data): data 0 cannot be decoded.
UnpackOk(data) == data # 0

ShouldUnpackAlways(r) == TRUE

ShouldUnpackStrict(r) == r.Status \/ requireSuccess

\* Whether the decode loop runs UnpackFunc for a result.
ShouldUnpack(r) == r.Status

ResetForgotten(q) == q

\* The queue after a FlexibleCall that reached the decode loop.
Reset(q) == <<>>

\* One turn of the loop over mc.calls that reads results[i]; after the last
\* turn the queue is reset and res returned.
Decode ==
    /\ mcpc = "decode"
    /\ IF k > Len(results)
       THEN \* results[i]: index out of range
            /\ mcpc' = "panic"
            /\ UNCHANGED <<calls, outputs, k, res, mcRet, trace>>
       ELSE LET c == calls[k]
                r == results[k]
            IN IF ShouldUnpack(r) /\ ~UnpackOk(r.ReturnData)
               THEN /\ trace' = Append(trace, <<"UnpackFunc", c.id>>)
                    /\ calls' = Reset(calls)
                    /\ mcRet' = ReturnError("error unpacking response")
                    /\ mcpc' = "idle"
                    /\ UNCHANGED <<outputs, k, res>>
               ELSE /\ IF ShouldUnpack(r)
                       THEN /\ trace' = Append(trace, <<"UnpackFunc", c.id>>)
                            /\ outputs' = [outputs EXCEPT ![c.id] = <<r.ReturnData>>]
                       ELSE UNCHANGED <<trace, outputs>>
                    /\ res' = [res EXCEPT ![k] = r.Status]
                    /\ IF k < Len(calls)
                       THEN /\ k' = NextTurn(k)
                            /\ UNCHANGED <<calls, mcRet, mcpc>>
                       ELSE /\ calls' = Reset(calls)
                            /\ mcRet' = ReturnFlags(res')
                            /\ mcpc' = "idle"
                            /\ UNCHANGED k
    /\ UNCHANGED <<requireSuccess, resp, results, queued, adds, execs, addsSinceCall,
                   noNewCalls, sent, bbVars, opts, ctorVars>>

NextMultiCaller ==
    \/ AddCall
    \/ FlexibleCall
    \/ Encode
    \/ Pack
    \/ Reply
    \/ Decode

\* --------------------------------------------------------- constructors

\* The package-level caches before any constructor ran.  balanceBatcherAbi
\* is kept as the list of pointers stored to it so far (empty: still nil),
\* because NewBalanceBatcher reads and writes it without synchronisation and
\* a racing read may see any store it has not already seen something later
\* than.  A parsed definition is <<n>>, n counting the abi.JSON runs of its
\* kind.
FreshPackage ==
    [balanceBatcherAbi |-> <<>>, multicallAbi |-> Nil, mcOnce |-> "new",
     parsed |-> [NewBalanceBatcher |-> 0, NewMultiCaller |-> 0]]

\* The caches once one constructor of each kind has run alone.
BuiltPackage ==
    [balanceBatcherAbi |-> <<(<<1>>)>>, multicallAbi |-> <<1>>, mcOnce |-> "done",
     parsed |-> [NewBalanceBatcher |-> 1, NewMultiCaller |-> 1]]

\* A goroutine calls one of the two constructors.
Construct ==
    /\ Len(ctors) < MaxCtors
    /\ \E kind \in {"NewBalanceBatcher", "NewMultiCaller"} :
        ctors' = Append(ctors, [kind |-> kind, pc |-> "entered", seen |-> 0, abi |-> Nil])
    /\ UNCHANGED <<codec, bbVars, mcVars, opts>>

\* The stores to balanceBatcherAbi a read by constructor call p may return:
\* 0 stands for the initial nil.
Visible(p) == ctors[p].seen..Len(codec.balanceBatcherAbi)

\* if balanceBatcherAbi == nil
BatcherCheck(p) ==
    /\ ctors[p].kind = "NewBalanceBatcher"
    /\ ctors[p].pc = "entered"
    /\ \E x \in Visible(p) :
        ctors' = [ctors EXCEPT ![p].seen = x,
                               ![p].pc = IF x = 0 THEN "parse" ELSE "make"]
    /\ UNCHANGED <<codec, bbVars, mcVars, opts>>

\* abi, err := abi.JSON(...); balanceBatcherAbi = &abi.  The string parsed is
\* a constant of the package, so abi.JSON does not fail.
BatcherParse(p) ==
    /\ ctors[p].kind = "NewBalanceBatcher"
    /\ ctors[p].pc = "parse"
    /\ LET n == codec.parsed.NewBalanceBatcher + 1 IN
        /\ codec' = [codec EXCEPT !.parsed.NewBalanceBatcher = n,
                                  !.balanceBatcherAbi = Append(@, <<n>>)]
        /\ ctors' = [ctors EXCEPT ![p].seen = Len(codec.balanceBatcherAbi) + 1,
                                  ![p].pc = "make"]
    /\ UNCHANGED <<bbVars, mcVars, opts>>

\* return &BalanceBatcher{..., abi: balanceBatcherAbi, ...}
BatcherMake(p) ==
    /\ ctors[p].kind = "NewBalanceBatcher"
    /\ ctors[p].pc = "make"
    /\ \E x \in Visible(p) :
        /\ x >= 1
        /\ ctors' = [ctors EXCEPT ![p].seen = x, ![p].abi = codec.balanceBatcherAbi[x],
                                  ![p].pc = "done"]
    /\ UNCHANGED <<codec, bbVars, mcVars, opts>>

\* mcOnce.Do(f): the first caller runs f, a caller arriving while f runs
\* waits, a caller arriving after f returned goes on.
OnceDo(p) ==
    /\ ctors[p].kind = "NewMultiCaller"
    /\ ctors[p].pc = "entered"
    /\ codec.mcOnce # "running"
    /\ IF codec.mcOnce = "new"
       THEN /\ codec' = [codec EXCEPT !.mcOnce = "running"]
            /\ ctors' = [ctors EXCEPT ![p].pc = "parse"]
       ELSE /\ ctors' = [ctors EXCEPT ![p].pc = "make"]
            /\ UNCHANGED codec
    /\ UNCHANGED <<bbVars, mcVars, opts>>

\* The function handed to mcOnce.Do: parsedAbi, err = abi.JSON(...);
\* multicallAbi = parsedAbi.
MultiCallerParse(p) ==
    /\ ctors[p].kind = "NewMultiCaller"
    /\ ctors[p].pc = "parse"
    /\ LET n == codec.parsed.NewMultiCaller + 1 IN
        codec' = [codec EXCEPT !.parsed.NewMultiCaller = n, !.multicallAbi = <<n>>,
                               !.mcOnce = "done"]
    /\ ctors' = [ctors EXCEPT ![p].pc = "make"]
    /\ UNCHANGED <<bbVars, mcVars, opts>>

\* return &MultiCaller{...}: the instance works with the package's
\* multicallAbi, read after mcOnce.Do returned.
MultiCallerMake(p) ==
    /\ ctors[p].kind = "NewMultiCaller"
    /\ ctors[p].pc = "make"
    /\ ctors' = [ctors EXCEPT ![p].abi = codec.multicallAbi, ![p].pc = "done"]
    /\ UNCHANGED <<codec, bbVars, mcVars, opts>>

NextConstructors ==
    \/ Construct
    \/ \E p \in 1..Len(ctors) : BatcherCheck(p)
    \/ \E p \in 1..Len(ctors) : BatcherParse(p)
    \/ \E p \in 1..Len(ctors) : BatcherMake(p)
    \/ \E p \in 1..Len(ctors) : OnceDo(p)
    \/ \E p \in 1..Len(ctors) : MultiCallerParse(p)
    \/ \E p \in 1..Len(ctors) : MultiCallerMake(p)

\* ------------------------------------------------------- specifications

\* No constructor call is under way and the caches are filled.
Built == ctors = <<>> /\ codec = BuiltPackage

\* GetEthBalances on a BalanceBatcher built with a positive batch size and a
\* positive thread limit; the MultiCaller is left alone.
InitGetEthBalances == InitBalances /\ InitMultiCaller /\ opts = NoOpts /\ Built

SpecBalances == InitGetEthBalances /\ [][NextBalances]_vars

\* The next step of goroutine u, whatever it is.
UnitStep(u) ==
    /\ u <= Len(units)
    /\ (UnitPack(u) \/ UnitReply(u) \/ UnitUnpack(u) \/ UnitWrite(u))

\* The same with the scheduler's and the transport's part of the bargain: the
\* goroutine running GetEthBalances and every goroutine of the group keep
\* being scheduled, and every CallContract returns.
FairSpecBalances ==
    /\ SpecBalances
    /\ WF_vars(Spawn)
    /\ WF_vars(LoopEnd)
    /\ WF_vars(Return)
    /\ \A u \in 1..MaxAddresses : WF_vars(UnitStep(u))

\* GetEthBalances on a BalanceBatcher built with whatever batch size and
\* thread limit the constructor was given, under the same fairness.
InitUnvalidated == InitAnyBalances /\ InitMultiCaller /\ opts = NoOpts /\ Built

FairSpecUnvalidated ==
    /\ InitUnvalidated
    /\ [][NextBalances]_vars
    /\ WF_vars(Spawn)
    /\ WF_vars(LoopEnd)
    /\ WF_vars(Return)
    /\ \A u \in 1..MaxUnits : WF_vars(UnitStep(u))

\* AddCall and FlexibleCall on one MultiCaller, calls not overlapping; the
\* batcher is built and left alone.
InitFlexibleCall ==
    /\ InitBalances
    /\ InitMultiCaller
    /\ BalanceBatchSize = MaxBatchSize
    /\ ThreadLimit = MaxThreadLimit
    /\ opts = NoOpts
    /\ Built

SpecMultiCaller == InitFlexibleCall /\ [][NextMultiCaller]_vars

\* One call of either entry point with the caller's options: GetEthBalances
\* on a batcher that cuts the list into more than one chunk, or AddCall and
\* one FlexibleCall on a MultiCaller.
InitOptions ==
    /\ InitBalances
    /\ InitMultiCaller
    /\ BalanceBatchSize = MaxBatchSize
    /\ ThreadLimit = MaxThreadLimit
    /\ opts \in CallOptions
    /\ Built

GetEthBalancesWithOptions == adds = 0 /\ execs = 0 /\ GetEthBalances

AddCallWithOptions == bpc = "ready" /\ execs = 0 /\ AddCall

FlexibleCallWithOptions == bpc = "ready" /\ execs = 0 /\ FlexibleCall

NextOptions ==
    \/ GetEthBalancesWithOptions
    \/ Spawn
    \/ LoopEnd
    \/ \E u \in 1..Len(units) : UnitPack(u)
    \/ \E u \in 1..Len(units) : UnitReply(u)
    \/ \E u \in 1..Len(units) : UnitUnpack(u)
    \/ \E u \in 1..Len(units) : UnitWrite(u)
    \/ Return
    \/ AddCallWithOptions
    \/ FlexibleCallWithOptions
    \/ Encode
    \/ Pack
    \/ Reply
    \/ Decode

SpecOptions == InitOptions /\ [][NextOptions]_vars

\* Constructor calls of both kinds, each in a goroutine of its own, in a
\* process that has built nothing yet.
InitConstructors ==
    /\ InitBalances
    /\ InitMultiCaller
    /\ BalanceBatchSize = MaxBatchSize
    /\ ThreadLimit = MaxThreadLimit
    /\ opts = NoOpts
    /\ ctors = <<>>
    /\ codec = FreshPackage

SpecConstructors == InitConstructors /\ [][NextConstructors]_vars

\* ------------------------------------------------------ GetEthBalances

\* The unit whose chunk holds position n (1-based) of the address list.
Covers(u, n) == units[u].i < n /\ n <= units[u].max

AllUnitsSucceeded == \A u \in 1..Len(units) : units[u].pc = "done" /\ units[u].err = NoError

SomeUnitFailed == \E u \in 1..Len(units) : units[u].err # NoError

\* C1: when GetEthBalances has returned and every chunk succeeded, it returned
\* no error and an array as long as the address list whose entry n is the
\* balance the aggregator's reply listed for addresses[n]: the entry at the
\* position addresses[n] had in the call data of the chunk that holds n.
OrderPreserved ==
    (ret.done /\ AllUnitsSucceeded) =>
        /\ ret.err = NoError
        /\ ~ret.isNil
        /\ Len(ret.balances) = Len(addresses)
        /\ \A n \in 1..Len(addresses) :
            \E u \in 1..Len(units) :
                /\ Covers(u, n)
                /\ units[u].callData[n - units[u].i] = addresses[n]
                /\ ret.balances[n] = units[u].subBalances[n - units[u].i]

\* Several chunks succeeded and the array holds different balances.
OrderPreservedWitness ==
    /\ ret.done
    /\ ret.err = NoError
    /\ Len(units) >= 2
    /\ Len(ret.balances) >= 3
    /\ ret.balances[1] # ret.balances[2]
    /\ ret.balances[2] # ret.balances[3]

\* Units whose CallContract invocation is outstanding.
Outstanding == {u \in 1..Len(units) : units[u].pc = "call"}

\* Never more than ThreadLimit units have started and not finished, so never
\* more than ThreadLimit transport invocations are outstanding.
AtMostLimitActive ==
    /\ Cardinality(Active) <= ThreadLimit
    /\ Cardinality(Outstanding) <= ThreadLimit

\* A unit is started only when fewer than ThreadLimit units are active.
StartsOnlyBelowLimit ==
    [][Len(units') > Len(units) => Cardinality(Active) < ThreadLimit]_vars

\* C3: at most ThreadLimit units are running (started and not finished, in
\* particular with an outstanding transport invocation) in every reachable
\* state, and a further unit starts only once fewer than ThreadLimit run.
BoundedConcurrency == []AtMostLimitActive /\ StartsOnlyBelowLimit

\* The pool is full of outstanding invocations and a chunk waits for a slot.
BoundedConcurrencyWitness ==
    /\ bpc = "loop"
    /\ i < Len(addresses)
    /\ ThreadLimit >= 2
    /\ Cardinality(Outstanding) = ThreadLimit

\* C4: when GetEthBalances has returned and some chunk failed, it returned an
\* error and a nil array.
FailureReturnsNothing ==
    (ret.done /\ SomeUnitFailed) =>
        /\ ret.err # NoError
        /\ ret.isNil
        /\ ret.balances = <<>>

\* A chunk failed after another chunk had written its balances.
FailureReturnsNothingWitness ==
    /\ ret.done
    /\ SomeUnitFailed
    /\ \E n \in 1..Len(balances) : balances[n] # Nil

\* Once GetEthBalances has returned, every unit it spawned has finished.
AllFinishedAtReturn == (bpc = "returned" \/ ret.done) => Active = {}

\* Nothing is written into the array, and no unit moves, after the return.
NoWorkAfterReturn == [][bpc = "returned" => (balances' = balances /\ units' = units)]_vars

\* C8: GetEthBalances returns only when every unit it spawned has finished,
\* whether or not an error was recorded, and after the return no unit runs or
\* writes into the array.
StructuredJoin == []AllFinishedAtReturn /\ NoWorkAfterReturn

\* The call returned an error although a later chunk ran to its end.
StructuredJoinWitness ==
    /\ bpc = "returned"
    /\ Len(units) >= 2
    /\ units[1].err # NoError
    /\ units[2].err = NoError
    /\ units[2].j >= 1

Ceil(a, b) == (a + b - 1) \div b

\* C9: the units are the chunks addresses[i:min(i+C,N)] at the offsets 0, C,
\* 2C, ... in that order; when the loop has ended there are ceil(N/C) of them
\* and every position of the list lies in exactly one; a unit issues at most
\* one transport invocation, and exactly one once its call data is packed.
ChunkPartition ==
    /\ \A u \in 1..Len(units) :
        /\ units[u].i = (u - 1) * BalanceBatchSize
        /\ units[u].i < Len(addresses)
        /\ units[u].max = Min(units[u].i + BalanceBatchSize, Len(addresses))
        /\ (units[u].max - units[u].i < BalanceBatchSize) => units[u].max = Len(addresses)
        /\ units[u].invocations <= 1
        /\ units[u].invocations = 1 <=>
             (units[u].pc # "start" /\ units[u].err # "error creating calldata")
        /\ units[u].invocations = 1 =>
             units[u].callData = [m \in 1..(units[u].max - units[u].i) |->
                                     addresses[units[u].i + m]]
    /\ bpc \in {"wait", "returned"} =>
        /\ Len(units) = Ceil(Len(addresses), BalanceBatchSize)
        /\ \A n \in 1..Len(addresses) :
            Cardinality({u \in 1..Len(units) : Covers(u, n)}) = 1

\* Three addresses in chunks of two: the last chunk is shorter.
ChunkPartitionWitness ==
    /\ bpc = "returned"
    /\ Len(addresses) = 3
    /\ BalanceBatchSize = 2
    /\ Len(units) = 2
    /\ units[2].invocations = 1
    /\ units[1].invocations = 0

\* -------------------------------------------------------- FlexibleCall

\* A FlexibleCall has returned and nothing was queued since.
JustReturned == mcpc = "idle" /\ mcRet.done /\ addsSinceCall = 0

Ran(step, id) == \E n \in 1..Len(trace) : trace[n] = <<step, id>>

Invocations == Cardinality({n \in 1..Len(trace) : trace[n][1] = "CallContract"})

\* C2: after a FlexibleCall has returned the queue is empty, and a
\* FlexibleCall that follows another with no AddCall between invokes the
\* transport zero times and returns an empty list.
QueueEmptyAfterFlexibleCall ==
    /\ JustReturned => calls = <<>>
    /\ noNewCalls => (Invocations = 0 /\ mcpc = "idle" /\ mcRet = ReturnFlags(<<>>))

\* The aggregate listed a result for every queued descriptor, and every
\* result reported successful can be decoded.
WellFormedReply ==
    /\ resp.kind = "list"
    /\ Len(results) >= Len(queued)
    /\ \A n \in 1..Len(queued) : results[n].Status => UnpackOk(results[n].ReturnData)

\* C5: a non-strict FlexibleCall on a non-empty queue, answered with a result
\* for every descriptor and no undecodable successful result, returns no error
\* and one flag per descriptor, in queue order, flag n being the status of
\* result n; UnpackFunc ran for exactly the descriptors flagged true, and the
\* output of a descriptor holds its decoded return data if flagged true and is
\* untouched otherwise.
NonStrictFlags ==
    (JustReturned /\ ~requireSuccess /\ queued # <<>> /\ WellFormedReply) =>
        /\ mcRet.err = NoError
        /\ ~mcRet.isNil
        /\ Len(mcRet.flags) = Len(queued)
        /\ \A n \in 1..Len(queued) :
            /\ mcRet.flags[n] = results[n].Status
            /\ Ran("UnpackFunc", queued[n].id) <=> mcRet.flags[n]
            /\ outputs[queued[n].id] =
                 IF mcRet.flags[n] THEN <<results[n].ReturnData>> ELSE Nil

\* Three descriptors, the second reported failed with data that would decode.
NonStrictFlagsWitness ==
    /\ JustReturned
    /\ ~requireSuccess
    /\ mcRet.flags = <<TRUE, FALSE, TRUE>>
    /\ results[2].ReturnData # 0
    /\ outputs[queued[1].id] # outputs[queued[3].id]

\* C6: a FlexibleCall entered with an empty queue has run no step (no
\* PackFunc, no CallContract, no UnpackFunc) and has returned an empty,
\* non-nil flag list and no error.
EmptyQueueNoOp ==
    (execs > 0 /\ addsSinceCall = 0 /\ queued = <<>>) =>
        /\ mcpc = "idle"
        /\ trace = <<>>
        /\ mcRet = ReturnFlags(<<>>)

\* An empty-queue FlexibleCall on a MultiCaller that was used before.
EmptyQueueNoOpWitness ==
    /\ execs = 2
    /\ addsSinceCall = 0
    /\ queued = <<>>
    /\ mcRet.done
    /\ adds >= 1

\* Positions whose result is reported successful and cannot be decoded.
DecodeFailures ==
    {n \in 1..Min(Len(queued), Len(results)) :
        results[n].Status /\ ~UnpackOk(results[n].ReturnData)}

FirstDecodeFailure == CHOOSE n \in DecodeFailures : \A m \in DecodeFailures : n <= m

\* C7: when the transport answered with a list in which some successful
\* result cannot be decoded, the call does not panic, and once it has returned
\* it returned an error and a nil flag list, the queue is empty, UnpackFunc
\* ran for no descriptor after the first such position and their outputs are
\* untouched, and the outputs of the successful descriptors before it hold
\* their decoded data.
DecodeFailureIsFatal ==
    (resp.kind = "list" /\ DecodeFailures # {}) =>
        /\ mcpc # "panic"
        /\ JustReturned =>
            /\ mcRet = ReturnError("error unpacking response")
            /\ calls = <<>>
            /\ Ran("UnpackFunc", queued[FirstDecodeFailure].id)
            /\ outputs[queued[FirstDecodeFailure].id] = Nil
            /\ \A n \in 1..Len(queued) :
                /\ n > FirstDecodeFailure =>
                    /\ ~Ran("UnpackFunc", queued[n].id)
                    /\ outputs[queued[n].id] = Nil
                /\ n < FirstDecodeFailure =>
                    outputs[queued[n].id] =
                        IF results[n].Status THEN <<results[n].ReturnData>> ELSE Nil

\* The second of three descriptors fails to decode; the first was decoded and
\* the third, reported successful too, was not.
DecodeFailureIsFatalWitness ==
    /\ JustReturned
    /\ Len(queued) = 3
    /\ resp.kind = "list"
    /\ Len(results) >= 3
    /\ DecodeFailures # {}
    /\ FirstDecodeFailure = 2
    /\ results[1].Status
    /\ results[3].Status
    /\ UnpackOk(results[3].ReturnData)
    /\ outputs[queued[1].id] # Nil

AllEncoded == \A n \in 1..Len(queued) : queued[n].packOk

\* C10: a FlexibleCall never invokes the transport twice; one that has
\* returned (or panicked) from a non-empty queue invoked it once if every
\* PackFunc and the aggregate packing succeeded, and not at all otherwise;
\* and whenever a PackFunc has failed nothing was dispatched.
OneDispatch ==
    /\ Invocations <= 1
    /\ (\E n \in 1..Len(queued) : Ran("PackFunc", queued[n].id) /\ ~queued[n].packOk)
        => (Invocations = 0 /\ mcpc = "idle")
    /\ ((JustReturned \/ mcpc = "panic") /\ queued # <<>>) =>
        Invocations =
            IF AllEncoded /\ mcRet.err # "error packing aggregated call data" THEN 1 ELSE 0

\* The second PackFunc failed after the first had succeeded: no dispatch.
OneDispatchWitness ==
    /\ JustReturned
    /\ Len(queued) = 2
    /\ queued[1].packOk
    /\ ~queued[2].packOk
    /\ Ran("PackFunc", queued[2].id)
    /\ Invocations = 0

\* C11: when the transport invocation failed, or its response could not be
\* unpacked, FlexibleCall has returned an error (the transport's or the
\* unpacking one) and a nil flag list, no UnpackFunc ran, and the output of
\* every queued descriptor is untouched.
RoundTripFailureIsFatal ==
    (resp.kind \in {"error", "garbage"}) =>
        /\ mcpc = "idle"
        /\ mcRet = ReturnError(IF resp.kind = "error"
                               THEN "error calling multicall contract"
                               ELSE "error unpacking aggregated response data")
        /\ \A n \in 1..Len(queued) :
            /\ ~Ran("UnpackFunc", queued[n].id)
            /\ outputs[queued[n].id] = Nil

\* The round trip of a call on three descriptors failed.
RoundTripFailureIsFatalWitness ==
    /\ JustReturned
    /\ resp.kind = "error"
    /\ Len(queued) = 3
    /\ Invocations = 1

\* ------------------------------------------- GetEthBalances, continued

\* The units that have just finished with an error in this step.
JustFailed == {u \in 1..Len(units) : units[u].err = NoError /\ units'[u].err # NoError}

\* A recorded error is never replaced, and the first unit to fail records its.
FirstErrorKept ==
    /\ gerr # NoError => gerr' = gerr
    /\ (gerr = NoError /\ JustFailed # {}) => \E u \in JustFailed : gerr' = units'[u].err
    /\ (gerr = NoError /\ JustFailed = {}) => gerr' = NoError

\* Whatever was recorded, at the return every chunk has been started and has
\* finished, and a chunk that finished without an error of its own went
\* through its whole list.
NothingCancelled ==
    /\ \A u \in 1..Len(units) :
        (units[u].pc = "done" /\ units[u].err = NoError) =>
            units[u].j = units[u].max - units[u].i
    /\ ret.done =>
        /\ ret.err = gerr
        /\ Len(units) = Ceil(Len(addresses), BalanceBatchSize)
        /\ \A u \in 1..Len(units) : units[u].pc = "done"

\* C13: the error GetEthBalances returns is the first one a unit recorded,
\* later errors are dropped, and a recorded error cancels nothing: every
\* chunk, also one started after the error, is started and runs to its end.
FailFastWithoutCancellation == []NothingCancelled /\ [][FirstErrorKept]_vars

\* With one slot, the first chunk failed, so the second was started after the
\* error was recorded; it wrote its balances, and the call has returned.
FailFastWithoutCancellationWitness ==
    /\ ret.done
    /\ ThreadLimit = 1
    /\ Len(units) >= 2
    /\ units[1].err # NoError
    /\ units[2].err = NoError
    /\ units[2].j >= 1
    /\ ret.err = units[1].err

IntegrityErrors == {"mismatches query batch size", "received nil balance"}

\* What holds of the chunks and of the array in every state.
IntegrityKept ==
    /\ \A u \in 1..Len(units) :
        LET c == units[u] IN
        \* the write loop is entered only with a list of the chunk's length
        /\ (c.pc = "write" \/ c.j > 0) => Len(c.subBalances) = c.max - c.i
        \* a chunk that ended on a nil value names the address of that value
        /\ c.err = "received nil balance" =>
            /\ c.j < Len(c.subBalances)
            /\ c.subBalances[c.j + 1] = Nil
            /\ c.errAddress = addresses[c.i + c.j + 1]
        \* a chunk that ended without an error held no nil value
        /\ (c.pc = "done" /\ c.err = NoError) =>
            \A n \in 1..Len(c.subBalances) : c.subBalances[n] # Nil
    \* whatever the array holds was written by the chunk of that position,
    \* from a list of the right length, and is not nil
    /\ \A n \in 1..Len(balances) :
        balances[n] # Nil =>
            \E u \in 1..Len(units) :
                /\ Covers(u, n)
                /\ Len(units[u].subBalances) = units[u].max - units[u].i
                /\ n - units[u].i <= units[u].j
                /\ balances[n] = units[u].subBalances[n - units[u].i]
    \* a failed chunk fails the call
    /\ (ret.done /\ \E u \in 1..Len(units) : units[u].err \in IntegrityErrors) =>
        ret.isNil /\ ret.err # NoError

\* What a chunk does with a list of the wrong length and with a nil value.
IntegrityChecked ==
    \A u \in 1..Len(units) :
        LET c == units[u] IN
        /\ (/\ c.pc = "unpack"
            /\ c.reply.kind = "list"
            /\ Len(c.reply.list) # c.max - c.i
            /\ units'[u] # c) =>
                /\ units'[u].pc = "done"
                /\ units'[u].err = "mismatches query batch size"
                /\ balances' = balances
        /\ (/\ c.pc = "write"
            /\ c.j < Len(c.subBalances)
            /\ c.subBalances[c.j + 1] = Nil
            /\ units'[u] # c) =>
                /\ units'[u].pc = "done"
                /\ units'[u].err = "received nil balance"
                /\ balances' = balances

\* C14: a chunk whose decoded list is not as long as the chunk, or holds a
\* nil value, ends with an error (for a nil value, one naming the address it
\* belongs to) and GetEthBalances fails; the array receives only non-nil
\* values, and only from a list that passed the length check.
ChunkIntegrity == []IntegrityKept /\ [][IntegrityChecked]_vars

\* A chunk wrote its first balance, then met a nil one; the call returned.
ChunkIntegrityWitness ==
    /\ ret.done
    /\ \E u \in 1..Len(units) :
        /\ units[u].err = "received nil balance"
        /\ units[u].j = 1
        /\ balances[units[u].i + 1] # Nil
        /\ units[u].errAddress = Address(units[u].i + 2)

\* GetEthBalances has returned an array of one value per address, or an error.
Terminated ==
    /\ bpc = "returned"
    /\ ret.done
    /\ \/ ret.err = NoError /\ ~ret.isNil /\ Len(ret.balances) = Len(addresses)
       \/ ret.err # NoError /\ ret.isNil

\* C18: with a positive batch size and a positive thread limit, and every
\* CallContract returning, a GetEthBalances that was entered returns, with
\* an array of one value per address or with an error.
Terminates == (bpc = "loop") ~> Terminated

\* A call on the longest list, cut into more chunks than there are slots,
\* has returned.
TerminatesWitness ==
    /\ Terminated
    /\ Len(addresses) = MaxAddresses
    /\ Len(units) > ThreadLimit
    /\ \A u \in 1..Len(units) : units[u].invocations = 1

\* C23: whatever batch size and thread limit the batcher was built with, a
\* GetEthBalances entered with a non-empty address list returns.
TerminatesUnvalidated == (bpc = "loop" /\ addresses # <<>>) ~> bpc = "returned"

\* The three ways of not returning, each by the configuration that causes it.
StuckAtLimitZero ==
    (bpc = "loop" /\ addresses # <<>> /\ ThreadLimit = 0 /\ BalanceBatchSize > 0)
        ~> bpc = "returned"

StuckAtBatchSizeZero ==
    (bpc = "loop" /\ addresses # <<>> /\ ThreadLimit > 0 /\ BalanceBatchSize = 0)
        ~> bpc = "returned"

StuckAtNegativeBatchSize ==
    (bpc = "loop" /\ addresses # <<>> /\ ThreadLimit > 0 /\ BalanceBatchSize < 0)
        ~> bpc = "returned"

\* With a positive batch size, a thread limit that is not zero is enough.
TerminatesUnlimited ==
    (bpc = "loop" /\ BalanceBatchSize > 0 /\ ThreadLimit # 0) ~> Terminated

\* C21: a goroutine assigns only indices of the shared array that lie in its
\* own chunk [i, min(i+C, N)) (1-based here: i < n <= min(i+C, N)), so no
\* index is assigned by two goroutines, and none is assigned twice in one
\* GetEthBalances call.
NoSharedWrites ==
    \A n \in 1..Len(writes) :
        /\ Len(writes[n]) <= 1
        /\ \A m \in 1..Len(writes[n]) :
            LET c == units[writes[n][m]] IN
            /\ c.i < n
            /\ n <= c.i + BalanceBatchSize
            /\ n <= Len(addresses)

\* Two goroutines are in their write loops at once and each has assigned an
\* index already.
NoSharedWritesWitness ==
    \E u, v \in 1..Len(units) :
        /\ u # v
        /\ units[u].pc = "write"
        /\ units[v].pc = "write"
        /\ units[u].j >= 1
        /\ units[v].j >= 1
        /\ \E n \in 1..Len(writes) : writes[n] = <<u>>
        /\ \E n \in 1..Len(writes) : writes[n] = <<v>>

\* ------------------------------------------------------------- options

\* C12: when the caller's options carry the caller's own context, every
\* CallContract invocation made for the call (each chunk of GetEthBalances,
\* the one invocation of FlexibleCall) is handed that context.
ContextForwarded ==
    (opts.given /\ opts.Context = "caller") =>
        /\ \A u \in 1..Len(units) : units[u].invocations > 0 => units[u].ctx = "caller"
        /\ sent.invocations > 0 => sent.ctx = "caller"

\* The block reference the options stand for.
Reference == IF opts.given THEN opts.BlockNumber ELSE Nil

\* C20: every CallContract invocation carries the block number of the
\* options when options were given and none when they were not, so all the
\* chunks of one GetEthBalances carry the same one.
BlockReferencePropagated ==
    /\ \A u \in 1..Len(units) : units[u].invocations > 0 => units[u].blockNumber = Reference
    /\ sent.invocations > 0 => sent.blockNumber = Reference
    /\ \A u, v \in 1..Len(units) :
        (units[u].invocations > 0 /\ units[v].invocations > 0) =>
            units[u].blockNumber = units[v].blockNumber

\* Two chunks of a GetEthBalances called with a block number have been sent.
BlockReferencePropagatedWitness ==
    /\ opts.given
    /\ opts.BlockNumber # Nil
    /\ Len(units) >= 2
    /\ \A u \in 1..Len(units) : units[u].invocations > 0 /\ units[u].blockNumber = opts.BlockNumber

\* ------------------------------------------- MultiCaller, continued

\* What a step that is an AddCall does.
AddCallStep ==
    adds' = adds + 1 =>
        /\ Len(calls') = Len(calls) + 1
        /\ \A n \in 1..Len(calls) : calls'[n] = calls[n]
        /\ calls'[Len(calls')].id = adds'
        /\ calls'[Len(calls')].CallData = Nil
        /\ trace' = trace
        /\ sent' = sent
        /\ resp' = resp
        /\ outputs' = outputs

\* C15: AddCall puts exactly one new descriptor at the end of the queue and
\* leaves the descriptors already there, and their order, as they were; it
\* invokes no transport and runs no PackFunc (the new descriptor holds no
\* call data yet).
AddCallAppends == [][AddCallStep]_vars

\* A FlexibleCall failed at the transport and left two encoded descriptors
\* queued; an AddCall then put a third, not encoded, behind them.
AddCallAppendsWitness ==
    /\ mcpc = "idle"
    /\ execs = 1
    /\ addsSinceCall = 1
    /\ Len(calls) = 3
    /\ \A n \in 1..3 : calls[n].id = n
    /\ calls[1].CallData # Nil
    /\ calls[2].CallData # Nil
    /\ calls[3].CallData = Nil
    /\ Invocations = 1

PositionOf(id) ==
    IF \E q \in 1..Len(queued) : queued[q].id = id
    THEN CHOOSE q \in 1..Len(queued) : queued[q].id = id
    ELSE 0

PackEvents == {n \in 1..Len(trace) : trace[n][1] = "PackFunc"}

\* C17: within one FlexibleCall the PackFunc steps come first, one per
\* descriptor in queue order; the one CallContract is issued only after the
\* PackFunc of every descriptor; an UnpackFunc step comes only after the
\* CallContract was issued and answered, for a queued descriptor, and later
\* than the UnpackFunc of every descriptor queued before it.
PhaseOrdered ==
    /\ mcpc = "encode" => k = Cardinality(PackEvents) + 1 /\ k <= Len(queued)
    /\ \A n \in 1..Len(trace) :
        /\ trace[n][1] = "PackFunc" =>
            n <= Len(queued) /\ trace[n][2] = queued[n].id
        /\ trace[n][1] = "CallContract" =>
            n = Len(queued) + 1
        /\ trace[n][1] = "UnpackFunc" =>
            /\ n > Len(queued) + 1
            /\ trace[Len(queued) + 1][1] = "CallContract"
            /\ resp.kind = "list"
            /\ PositionOf(trace[n][2]) >= 1
            /\ \A m \in 1..(n - 1) :
                trace[m][1] = "UnpackFunc" =>
                    PositionOf(trace[m][2]) < PositionOf(trace[n][2])

\* A call on three descriptors ran all three PackFunc, the CallContract and
\* all three UnpackFunc, and returned.
PhaseOrderedWitness ==
    /\ JustReturned
    /\ Len(queued) = 3
    /\ Len(trace) = 7
    /\ trace[4] = <<"CallContract", 0>>
    /\ trace[7] = <<"UnpackFunc", queued[3].id>>
    /\ mcRet.err = NoError

\* The aggregate answered with fewer results than descriptors were queued.
ShortResponse == resp.kind = "list" /\ Len(resp.list) < Len(queued)

\* C22: FlexibleCall never indexes the decoded response past its end: when
\* the response holds fewer results than there are queued descriptors, the
\* call returns an error and a nil flag list.
NoReadPastEnd ==
    /\ mcpc # "panic"
    /\ (JustReturned /\ ShortResponse) => (mcRet.isNil /\ mcRet.err # NoError)

\* --------------------------------------------------------- constructors

Instances(kind) == {p \in 1..Len(ctors) : ctors[p].kind = kind /\ ctors[p].pc = "done"}

\* The definition of this kind was parsed at most once, exactly once if an
\* instance has been built, and all instances built hold the same one.
InitialisedOnce(kind) ==
    /\ codec.parsed[kind] <= 1
    /\ Instances(kind) # {} => codec.parsed[kind] = 1
    /\ \A p, q \in Instances(kind) : ctors[p].abi = ctors[q].abi

\* C19: however concurrent calls of NewBalanceBatcher and NewMultiCaller
\* interleave, the ABI of each kind is parsed and stored once, and every
\* instance built works with that one definition.
CodecInitialisedOnce ==
    /\ InitialisedOnce("NewBalanceBatcher")
    /\ InitialisedOnce("NewMultiCaller")
    /\ Len(codec.balanceBatcherAbi) <= 1

\* The part of C19 that is about NewMultiCaller alone.
MultiCallerInitialisedOnce == InitialisedOnce("NewMultiCaller")

====
